---- MODULE Spec2Model ----
(***************************************************************************)
(* Counterfactual regret minimisation on the coin game:                    *)
(*   src/cfr_sequence.py  StrategyState (the per-player strategy store),   *)
(*                        CFRNode.walktree (the recursive tree walk) and   *)
(*                        the driving loop of __main__;                    *)
(*   src/coin_toss.py     CoinToss (the game state).                       *)
(*                                                                         *)
(* Numbers.  The Python code computes with int and float.  The model       *)
(* computes with exact rationals <<n, d>> in lowest terms with d > 0:      *)
(* 0.5 is <<1, 2>>, the int 1 is <<1, 1>>.  Rounding of IEEE doubles is    *)
(* not modelled.                                                           *)
(*                                                                         *)
(* Recursion.  walktree is recursive; the model keeps the call stack       *)
(* explicitly (stack) and one action per straight-line piece of walktree.  *)
(***************************************************************************)
EXTENDS Integers, Sequences, FiniteSets, TLC

\* Number of iterations of the driving loop (range(100) in the source).
MaxWalks == 6

\* Number of direct calls of the store's methods in StoreSpec.
MaxCalls == 2

VARIABLES
    pi,      \* the module-level dict pi: player -> StrategyState
    nodes,   \* the CFRNode objects reachable from root_node, by path of moves
    stack,   \* the active walktree calls, innermost last
    i,       \* the loop counter of __main__: walks started so far
    log,     \* history: the calls and assignments of the current walk, in order
    call,    \* the last direct call of a method by one of the harnesses
    exc,     \* the exception that ended the program, None while it runs
    race     \* RaceSpec only: two store calls running statement by statement

vars == <<pi, nodes, stack, i, log, call, exc, race>>

----------------------------------------------------------------------------
\* Python values

\* Python's None where the other values are strings.
None == "None"

\* Python's None where the other values are players (0 = chance, 1, 2).
NoPlayer == -1

\* CFRNode.utility before walktree has set it (None in the source).
NoUtility == <<>>

\* Python's None where the other values are numbers.
NoNumber == <<>>

\* The outcome of a call that raises the exception instead of returning.
Raise(exception) == <<exception>>

Range(s) == {s[x] : x \in DOMAIN s}

----------------------------------------------------------------------------
\* Exact rational arithmetic for Python's +, -, *, / and comparisons

Abs(x) == IF x < 0 THEN -x ELSE x

RECURSIVE GCD(_, _)
GCD(a, b) == IF b = 0 THEN a ELSE GCD(b, a % b)

\* n/d in lowest terms, denominator positive
Rat(n, d) ==
    LET g == GCD(Abs(n), Abs(d))
        s == IF d < 0 THEN -1 ELSE 1
    IN  <<(s * n) \div g, (s * d) \div g>>

Num(x) == x[1]
Den(x) == x[2]

RZero == <<0, 1>>
ROne == <<1, 1>>
RInt(n) == <<n, 1>>

RAdd(x, y) == Rat(Num(x) * Den(y) + Num(y) * Den(x), Den(x) * Den(y))
RSub(x, y) == Rat(Num(x) * Den(y) - Num(y) * Den(x), Den(x) * Den(y))
RMul(x, y) == Rat(Num(x) * Num(y), Den(x) * Den(y))
\* y # 0 (Python raises ZeroDivisionError otherwise)
RDiv(x, y) == Rat(Num(x) * Den(y), Den(x) * Num(y))
RGt(x, y) == Num(x) * Den(y) > Num(y) * Den(x)
RLe(x, y) == Num(x) * Den(y) <= Num(y) * Den(x)
RGe(x, y) == Num(x) * Den(y) >= Num(y) * Den(x)

RECURSIVE RSum(_)
RSum(s) == IF s = <<>> THEN RZero ELSE RAdd(Head(s), RSum(Tail(s)))

----------------------------------------------------------------------------
\* src/coin_toss.py: class CoinToss

\* CoinToss.__init__
CoinToss ==
    [player_just_moved |-> NoPlayer,
     coin_toss |-> None,
     player1_choice |-> None,
     player2_choice |-> None]

get_player_next_moved(self) ==
    IF self.player1_choice = "sell" THEN NoPlayer
    ELSE IF self.player_just_moved = 2 THEN NoPlayer
    ELSE IF self.player_just_moved = NoPlayer THEN 0
    ELSE IF self.player_just_moved = 0 THEN 1
    ELSE IF self.player_just_moved = 1 THEN 2
    ELSE NoPlayer

\* mutant of get_information: player 1's information is "head" whatever the
\* coin shows
get_information_blind(self, player) ==
    IF player = 1 THEN "head"
    ELSE IF player = 2 THEN "nothing"
    ELSE None

get_information(self, player) ==
    IF player = 1 THEN self.coin_toss
    ELSE IF player = 2 THEN "nothing"
    ELSE None

\* a new object with the four fields copied
clone(self) ==
    [player_just_moved |-> self.player_just_moved,
     coin_toss |-> self.coin_toss,
     player1_choice |-> self.player1_choice,
     player2_choice |-> self.player2_choice]

do_move(self, move) ==
    IF self.player_just_moved = NoPlayer
    THEN [self EXCEPT !.player_just_moved = 0, !.coin_toss = move]
    ELSE IF self.player_just_moved = 0
    THEN [self EXCEPT !.player_just_moved = 1, !.player1_choice = move]
    ELSE IF self.player_just_moved = 1
    THEN [self EXCEPT !.player_just_moved = 2, !.player2_choice = move]
    ELSE self

\* the list of moves; <<>> stands for the None of the terminal states
get_moves(self) ==
    IF self.player_just_moved = NoPlayer THEN <<"head", "tail">>
    ELSE IF self.player_just_moved = 0 THEN <<"sell", "play">>
    ELSE IF self.player_just_moved = 1 /\ self.player1_choice = "play"
    THEN <<"head", "tail">>
    ELSE <<>>

\* mutant of get_result: after sell with the coin on head both players get 0.5
get_result_sell_head_same(self, playerjm) ==
    IF self.player_just_moved = 1 /\ self.player1_choice = "sell"
    THEN IF self.coin_toss = "head"
         THEN IF playerjm = 1 THEN Rat(1, 2)
              ELSE IF playerjm = 2 THEN Rat(1, 2)
              ELSE RZero
         ELSE IF self.coin_toss = "tail"
         THEN IF playerjm = 1 THEN Rat(-1, 2)
              ELSE IF playerjm = 2 THEN Rat(1, 2)
              ELSE RZero
         ELSE NoNumber
    ELSE IF self.player_just_moved = 2 /\ self.player1_choice = "play"
    THEN IF self.coin_toss = self.player2_choice
         THEN IF playerjm = 1 THEN RInt(-1)
              ELSE IF playerjm = 2 THEN ROne
              ELSE RZero
         ELSE IF playerjm = 1 THEN ROne
              ELSE IF playerjm = 2 THEN RInt(-1)
              ELSE RZero
    ELSE Raise("Exception")

\* Raise("Exception") is the Exception("wrong state...") of the last line,
\* NoNumber the None of falling off the end of the function without a return
get_result(self, playerjm) ==
    IF self.player_just_moved = 1 /\ self.player1_choice = "sell"
    THEN IF self.coin_toss = "head"
         THEN IF playerjm = 1 THEN Rat(1, 2)
              ELSE IF playerjm = 2 THEN Rat(-1, 2)
              ELSE RZero
         ELSE IF self.coin_toss = "tail"
         THEN IF playerjm = 1 THEN Rat(-1, 2)
              ELSE IF playerjm = 2 THEN Rat(1, 2)
              ELSE RZero
         ELSE NoNumber
    ELSE IF self.player_just_moved = 2 /\ self.player1_choice = "play"
    THEN IF self.coin_toss = self.player2_choice
         THEN IF playerjm = 1 THEN RInt(-1)
              ELSE IF playerjm = 2 THEN ROne
              ELSE RZero
         ELSE IF playerjm = 1 THEN ROne
              ELSE IF playerjm = 2 THEN RInt(-1)
              ELSE RZero
    ELSE Raise("Exception")

----------------------------------------------------------------------------
\* src/cfr_sequence.py: class StrategyState

\* StrategyState.__init__; 1/len(action_list) is evaluated once per action of
\* the list, so never for an empty list
StrategyState(info_list, action_list) ==
    [info_list |-> info_list,
     action_list |-> action_list,
     pi |-> [info \in Range(info_list) |->
                [action \in Range(action_list) |-> Rat(1, Len(action_list))]],
     regret |-> [info \in Range(info_list) |->
                [action \in Range(action_list) |-> RZero]],
     info_turn |-> [info \in Range(info_list) |-> 0],
     pi_sum |-> [info \in Range(info_list) |->
                [action \in Range(action_list) |-> RZero]]]

\* mutant of get_pi: a key that is not registered reads as 0
get_pi_default(self, info, action) ==
    IF info \in DOMAIN self.pi /\ action \in DOMAIN self.pi[info]
    THEN self.pi[info][action]
    ELSE RZero

\* the two subscripts raise KeyError for a key the dict does not hold
get_pi(self, info, action) ==
    IF info \in DOMAIN self.pi /\ action \in DOMAIN self.pi[info]
    THEN self.pi[info][action]
    ELSE Raise("KeyError")

\* the dict positive_regret built by the loop of update_pi
positive_regret(self, info) ==
    [move \in DOMAIN self.regret[info] |->
        IF RGt(self.regret[info][move], RZero)
        THEN self.regret[info][move] ELSE RZero]

\* the sum all_regret built by the same loop
all_regret(self, info) ==
    RSum([x \in DOMAIN self.action_list |->
            IF RGt(self.regret[info][self.action_list[x]], RZero)
            THEN self.regret[info][self.action_list[x]] ELSE RZero])

\* mutant of new_pi: the positive regrets are not divided by their sum
new_pi_unnormalised(self, info) ==
    IF RLe(all_regret(self, info), RZero)
    THEN [action \in Range(self.action_list) |->
            Rat(1, Len(self.action_list))]
    ELSE positive_regret(self, info)

\* mutant of new_pi: the uniform fallback is taken as soon as one regret is
\* not positive
new_pi_fallback_if_any(self, info) ==
    IF \E a \in Range(self.action_list) : RLe(self.regret[info][a], RZero)
    THEN [action \in Range(self.action_list) |->
            Rat(1, Len(self.action_list))]
    ELSE [action \in Range(self.action_list) |->
            RDiv(positive_regret(self, info)[action], all_regret(self, info))]

\* the value assigned to self.pi[info]
new_pi(self, info) ==
    IF RLe(all_regret(self, info), RZero)
    THEN [action \in Range(self.action_list) |->
            Rat(1, Len(self.action_list))]
    ELSE [action \in Range(self.action_list) |->
            RDiv(positive_regret(self, info)[action], all_regret(self, info))]

\* mutant of update_pi: pi_sum is accumulated only in the normalised branch
update_pi_sum_in_else_only(self, info) ==
    [self EXCEPT
        !.pi[info] = new_pi(self, info),
        !.pi_sum[info] = [action \in Range(self.action_list) |->
            IF RLe(all_regret(self, info), RZero) THEN @[action]
            ELSE RAdd(@[action], new_pi(self, info)[action])]]

update_pi(self, info) ==
    [self EXCEPT
        !.pi[info] = new_pi(self, info),
        !.pi_sum[info] = [action \in Range(self.action_list) |->
                            RAdd(@[action], new_pi(self, info)[action])]]

\* mutant of update_regret: the textbook cumulative sum instead of the
\* running average
update_regret_cumulative(self, tree, cfr_node, opponent_p) ==
    LET player == get_player_next_moved(tree[cfr_node].state)
        info == get_information(tree[cfr_node].state, player)
        u_old == tree[cfr_node].utility[player]
        t == self.info_turn[info]
        sub == tree[cfr_node].sub_nodes
        u_next(move) ==
            LET x == CHOOSE y \in DOMAIN sub : sub[y].move = move
            IN  tree[sub[x].node].utility[player]
    IN  [self EXCEPT
            !.regret[info] = [move \in DOMAIN @ |->
                IF \E y \in DOMAIN sub : sub[y].move = move
                THEN RAdd(@[move],
                          RMul(opponent_p, RSub(u_next(move), u_old)))
                ELSE @[move]],
            !.info_turn[info] = t + 1]

\* mutant of update_regret: info_turn is advanced inside the loop, once per
\* child
update_regret_turn_per_child(self, tree, cfr_node, opponent_p) ==
    LET player == get_player_next_moved(tree[cfr_node].state)
        info == get_information(tree[cfr_node].state, player)
        u_old == tree[cfr_node].utility[player]
        t == self.info_turn[info]
        sub == tree[cfr_node].sub_nodes
        u_next(move) ==
            LET x == CHOOSE y \in DOMAIN sub : sub[y].move = move
            IN  tree[sub[x].node].utility[player]
    IN  [self EXCEPT
            !.regret[info] = [move \in DOMAIN @ |->
                IF \E y \in DOMAIN sub : sub[y].move = move
                THEN RDiv(RAdd(RMul(@[move], RInt(t)),
                               RMul(opponent_p, RSub(u_next(move), u_old))),
                          RInt(t + 1))
                ELSE @[move]],
            !.info_turn[info] = t + Len(sub)]

\* tree: the CFRNode objects; cfr_node: the path of the node
update_regret(self, tree, cfr_node, opponent_p) ==
    LET player == get_player_next_moved(tree[cfr_node].state)
        info == get_information(tree[cfr_node].state, player)
        u_old == tree[cfr_node].utility[player]
        t == self.info_turn[info]
        sub == tree[cfr_node].sub_nodes
        u_next(move) ==
            LET x == CHOOSE y \in DOMAIN sub : sub[y].move = move
            IN  tree[sub[x].node].utility[player]
    IN  [self EXCEPT
            !.regret[info] = [move \in DOMAIN @ |->
                IF \E y \in DOMAIN sub : sub[y].move = move
                THEN RDiv(RAdd(RMul(@[move], RInt(t)),
                               RMul(opponent_p, RSub(u_next(move), u_old))),
                          RInt(t + 1))
                ELSE @[move]],
            !.info_turn[info] = t + 1]

----------------------------------------------------------------------------
\* src/cfr_sequence.py: class CFRNode

\* CFRNode.__init__; parent is the path of the parent node (None for the root)
CFRNode(move, parent, state) ==
    [move |-> move,
     parent_node |-> parent,
     utility |-> NoUtility,
     sub_nodes |-> <<>>,
     player_just_moved |-> state.player_just_moved,
     state |-> state]

\* the path that names the root node
Root == <<>>

\* one walktree call: self, the arguments, the locals and the position
Frame(self, p1, p2, sequence) ==
    [self |-> self, p1 |-> p1, p2 |-> p2, sequence |-> sequence,
     pc |-> "start", utility |-> NoUtility, k |-> 0,
     move |-> None, pi_action |-> RZero]

Top == stack[Len(stack)]
Pop == SubSeq(stack, 1, Len(stack) - 1)
Active == stack # <<>>
TopPlayer == get_player_next_moved(nodes[Top.self].state)
TopInfo == get_information(nodes[Top.self].state, TopPlayer)
TopMoves == get_moves(nodes[Top.self].state)

Event(op, node) == [op |-> op, node |-> node]

\* mutant of ChildFrame: the acting player's probability is multiplied into
\* the other player's reach
ChildFrameSwapped(player, next_node, p1, p2, pi_action, sequence) ==
    IF player = 1
    THEN Frame(next_node, p1, RMul(p2, pi_action), sequence)
    ELSE Frame(next_node, RMul(p1, pi_action), p2, sequence)

\* lines 94-97: the arguments of the recursive call at a player's node
ChildFrame(player, next_node, p1, p2, pi_action, sequence) ==
    IF player = 1
    THEN Frame(next_node, RMul(p1, pi_action), p2, sequence)
    ELSE Frame(next_node, p1, RMul(p2, pi_action), sequence)

\* mutant of Accumulate: the child's utility is added without its weight
AccumulateUnweighted(utility, pi_action, next_utility) ==
    [k \in {1, 2} |-> RAdd(utility[k], next_utility[k])]

\* lines 99-100: utility[k] += pi_action*next_node.utility[k]
Accumulate(utility, pi_action, next_utility) ==
    [k \in {1, 2} |-> RAdd(utility[k], RMul(pi_action, next_utility[k]))]

\* mutant of OpponentReach: the acting player's own reach
OwnReach(player, p1, p2) == IF player = 1 THEN p1 ELSE p2

\* lines 102-105: the second argument of update_regret
OpponentReach(player, p1, p2) == IF player = 1 THEN p2 ELSE p1

\* no store method has been called directly
NoCall == [n |-> 0, op |-> None, player |-> NoPlayer, info |-> None,
           opponent_p |-> RZero]

\* a caller that has not called yet
Idle ==
    [op |-> None, pc |-> "idle", k |-> 0, t |-> 0, regret |-> RZero,
     sum |-> RZero, u_next |-> <<>>, order |-> 0]

\* no call is running statement by statement
NoRace == [callers |-> [th \in {1, 2} |-> Idle], overlapped |-> FALSE]

----------------------------------------------------------------------------
\* The state after the module is loaded: cfr_sequence.py line 53

Init ==
    /\ pi = [player \in {1, 2} |->
                IF player = 1
                THEN StrategyState(<<"head", "tail">>, <<"sell", "play">>)
                ELSE StrategyState(<<"nothing">>, <<"head", "tail">>)]
    /\ nodes = <<>>
    /\ stack = <<>>
    /\ i = 0
    /\ log = <<>>
    /\ call = NoCall
    /\ exc = None
    /\ race = NoRace

\* __main__: one iteration of the loop up to the call of walktree
StartWalk ==
    /\ ~Active
    /\ i < MaxWalks
    /\ \E sequence0 \in {"head", "tail"} :
          /\ nodes' = (Root :> CFRNode(None, None, CoinToss))
          /\ stack' = <<Frame(Root, ROne, ROne, <<sequence0>>)>>
          /\ log' = <<Event("create", Root), Event("walktree", Root)>>
    /\ i' = i + 1
    /\ UNCHANGED <<pi, call, exc, race>>

\* walktree, player is None: lines 71-76
Terminal ==
    /\ Active
    /\ Top.pc = "start"
    /\ TopPlayer = NoPlayer
    /\ nodes' = [nodes EXCEPT ![Top.self].utility =
                    <<get_result(nodes[Top.self].state, 1),
                      get_result(nodes[Top.self].state, 2)>>]
    /\ stack' = Pop
    /\ log' = Append(log, Event("utility", Top.self))
    /\ UNCHANGED <<pi, i, call, exc, race>>

\* mutant of ChanceExpand: the child is walked with the whole sequence
ChanceExpandKeepsOutcome ==
    /\ Active
    /\ Top.pc = "start"
    /\ TopPlayer = 0
    /\ Top.sequence # <<>>
    /\ LET move == Top.sequence[1]
           next_state == do_move(clone(nodes[Top.self].state), move)
           next_node == Append(Top.self, move)
       IN  /\ nodes' = (next_node :> CFRNode(move, Top.self, next_state)) @@ nodes
           /\ stack' = Append(
                 [stack EXCEPT ![Len(stack)] =
                     [@ EXCEPT !.pc = "chance_ret", !.move = move]],
                 Frame(next_node, Top.p1, Top.p2, Top.sequence))
           /\ log' = log \o <<Event("create", next_node),
                              Event("walktree", next_node)>>
    /\ UNCHANGED <<pi, i, call, exc, race>>

\* walktree, player == 0: lines 78-82, up to the recursive call
ChanceExpand ==
    /\ Active
    /\ Top.pc = "start"
    /\ TopPlayer = 0
    /\ Top.sequence # <<>>
    /\ LET move == Top.sequence[1]
           next_state == do_move(clone(nodes[Top.self].state), move)
           next_node == Append(Top.self, move)
       IN  /\ nodes' = (next_node :> CFRNode(move, Top.self, next_state)) @@ nodes
           /\ stack' = Append(
                 [stack EXCEPT ![Len(stack)] =
                     [@ EXCEPT !.pc = "chance_ret", !.move = move]],
                 Frame(next_node, Top.p1, Top.p2, Tail(Top.sequence)))
           /\ log' = log \o <<Event("create", next_node),
                              Event("walktree", next_node)>>
    /\ UNCHANGED <<pi, i, call, exc, race>>

\* walktree, player == 0: lines 83-84, after the recursive call
ChanceCollect ==
    /\ Active
    /\ Top.pc = "chance_ret"
    /\ LET next_node == Append(Top.self, Top.move)
       IN  nodes' = [nodes EXCEPT
                ![Top.self].sub_nodes =
                    Append(@, [move |-> Top.move, node |-> next_node]),
                ![Top.self].utility = nodes[next_node].utility]
    /\ stack' = Pop
    /\ log' = Append(log, Event("utility", Top.self))
    /\ UNCHANGED <<pi, i, call, exc, race>>

\* walktree, player is 1 or 2: lines 86-88
PlayerBegin ==
    /\ Active
    /\ Top.pc = "start"
    /\ TopPlayer \in {1, 2}
    /\ TopInfo \in DOMAIN pi[TopPlayer].regret
    /\ pi' = [pi EXCEPT ![TopPlayer] = update_pi(@, TopInfo)]
    /\ stack' = [stack EXCEPT ![Len(stack)] =
                    [@ EXCEPT !.pc = "loop", !.utility = <<RZero, RZero>>,
                              !.k = 1]]
    /\ log' = Append(log, Event("update_pi", Top.self))
    /\ UNCHANGED <<nodes, i, call, exc, race>>

\* mutant of PlayerExpand: do_move is applied to the node's own state, which
\* the child then shares
PlayerExpandNoClone ==
    /\ Active
    /\ Top.pc = "loop"
    /\ Top.k <= Len(TopMoves)
    /\ LET move == TopMoves[Top.k]
           next_state == do_move(nodes[Top.self].state, move)
           pi_action == get_pi(pi[TopPlayer], TopInfo, move)
           next_node == Append(Top.self, move)
       IN  /\ nodes' = (next_node :> CFRNode(move, Top.self, next_state)) @@
                       [nodes EXCEPT ![Top.self].state = next_state]
           /\ stack' = Append(
                 [stack EXCEPT ![Len(stack)] =
                     [@ EXCEPT !.pc = "ret", !.move = move,
                               !.pi_action = pi_action]],
                 ChildFrame(TopPlayer, next_node, Top.p1, Top.p2, pi_action,
                            Top.sequence))
           /\ log' = log \o <<Event("create", next_node),
                              Event("walktree", next_node)>>
    /\ UNCHANGED <<pi, i, call, exc, race>>

\* mutant of PlayerExpand: a move the strategy gives probability 0 is skipped,
\* no child is created for it
PlayerExpandPrunes ==
    /\ Active
    /\ Top.pc = "loop"
    /\ Top.k <= Len(TopMoves)
    /\ LET move == TopMoves[Top.k]
           next_state == do_move(clone(nodes[Top.self].state), move)
           pi_action == get_pi(pi[TopPlayer], TopInfo, move)
           next_node == Append(Top.self, move)
       IN  IF pi_action = RZero
           THEN /\ stack' = [stack EXCEPT ![Len(stack)] =
                                [@ EXCEPT !.k = @ + 1]]
                /\ UNCHANGED <<nodes, log>>
           ELSE /\ nodes' = (next_node :> CFRNode(move, Top.self, next_state))
                              @@ nodes
                /\ stack' = Append(
                      [stack EXCEPT ![Len(stack)] =
                          [@ EXCEPT !.pc = "ret", !.move = move,
                                    !.pi_action = pi_action]],
                      ChildFrame(TopPlayer, next_node, Top.p1, Top.p2,
                                 pi_action, Top.sequence))
                /\ log' = log \o <<Event("create", next_node),
                                   Event("walktree", next_node)>>
    /\ UNCHANGED <<pi, i, call, exc, race>>

\* walktree, one turn of the loop over get_moves(): lines 89-97, up to the
\* recursive call
PlayerExpand ==
    /\ Active
    /\ Top.pc = "loop"
    /\ Top.k <= Len(TopMoves)
    /\ LET move == TopMoves[Top.k]
           next_state == do_move(clone(nodes[Top.self].state), move)
           pi_action == get_pi(pi[TopPlayer], TopInfo, move)
           next_node == Append(Top.self, move)
       IN  /\ nodes' = (next_node :> CFRNode(move, Top.self, next_state)) @@ nodes
           /\ stack' = Append(
                 [stack EXCEPT ![Len(stack)] =
                     [@ EXCEPT !.pc = "ret", !.move = move,
                               !.pi_action = pi_action]],
                 ChildFrame(TopPlayer, next_node, Top.p1, Top.p2, pi_action,
                            Top.sequence))
           /\ log' = log \o <<Event("create", next_node),
                              Event("walktree", next_node)>>
    /\ UNCHANGED <<pi, i, call, exc, race>>

\* mutant of PlayerCollect: the running total is also stored in self.utility
\* at every turn of the loop
PlayerCollectStoresTotal ==
    /\ Active
    /\ Top.pc = "ret"
    /\ LET next_node == Append(Top.self, Top.move)
           total == Accumulate(Top.utility, Top.pi_action,
                               nodes[next_node].utility)
       IN  /\ nodes' = [nodes EXCEPT
                 ![Top.self].sub_nodes =
                     Append(@, [move |-> Top.move, node |-> next_node]),
                 ![Top.self].utility = total]
           /\ stack' = [stack EXCEPT ![Len(stack)] =
                 [@ EXCEPT !.pc = "loop", !.k = @ + 1, !.utility = total]]
    /\ UNCHANGED <<pi, i, log, call, exc, race>>

\* walktree, the rest of the turn of the loop: lines 98-100
PlayerCollect ==
    /\ Active
    /\ Top.pc = "ret"
    /\ LET next_node == Append(Top.self, Top.move)
       IN  /\ nodes' = [nodes EXCEPT ![Top.self].sub_nodes =
                          Append(@, [move |-> Top.move, node |-> next_node])]
           /\ stack' = [stack EXCEPT ![Len(stack)] =
                 [@ EXCEPT !.pc = "loop", !.k = @ + 1,
                     !.utility = Accumulate(@, Top.pi_action,
                                            nodes[next_node].utility)]]
    /\ UNCHANGED <<pi, i, log, call, exc, race>>

\* mutant of PlayerFinish: the loop may be left after its first turn
PlayerFinishEarly ==
    /\ Active
    /\ Top.pc = "loop"
    /\ Top.k > 1
    /\ nodes' = [nodes EXCEPT ![Top.self].utility = Top.utility]
    /\ pi' = [pi EXCEPT ![TopPlayer] =
                update_regret(@, nodes', Top.self,
                              OpponentReach(TopPlayer, Top.p1, Top.p2))]
    /\ stack' = Pop
    /\ log' = log \o <<Event("utility", Top.self),
                       Event("update_regret", Top.self)>>
    /\ UNCHANGED <<i, call, exc, race>>

\* walktree, after the loop: lines 101-105
PlayerFinish ==
    /\ Active
    /\ Top.pc = "loop"
    /\ Top.k > Len(TopMoves)
    /\ nodes' = [nodes EXCEPT ![Top.self].utility = Top.utility]
    /\ pi' = [pi EXCEPT ![TopPlayer] =
                update_regret(@, nodes', Top.self,
                              OpponentReach(TopPlayer, Top.p1, Top.p2))]
    /\ stack' = Pop
    /\ log' = log \o <<Event("utility", Top.self),
                       Event("update_regret", Top.self)>>
    /\ UNCHANGED <<i, call, exc, race>>

Next ==
    \/ StartWalk
    \/ Terminal
    \/ ChanceExpand
    \/ ChanceCollect
    \/ PlayerBegin
    \/ PlayerExpand
    \/ PlayerCollect
    \/ PlayerFinish

Spec == Init /\ [][Next]_vars

----------------------------------------------------------------------------
\* StrategyState used directly: the methods update_pi and update_regret called
\* in any order on the stores of line 53, with any node of the coin game at
\* which a player moves, any subset of its children expanded, and utilities
\* and reach probabilities drawn from small sets.

\* a game state at which player 1 moves and one at which player 2 moves
CallStates ==
    {do_move(CoinToss, "head"),
     do_move(do_move(CoinToss, "head"), "play")}

CallUtilities == {RInt(-1), RZero, ROne}

CallReach == {Rat(1, 2)}

\* the utility dict in which player has u and the other player -u
UtilityFor(player, u) ==
    IF player = 1 THEN <<u, RSub(RZero, u)>> ELSE <<RSub(RZero, u), u>>

\* a node over state with utility u_old for the player to move and, for the
\* moves in DOMAIN u_next, walked children with utility u_next[move]
CallTree(state, u_old, u_next) ==
    LET player == get_player_next_moved(state)
        moves == SelectSeq(get_moves(state), LAMBDA m : m \in DOMAIN u_next)
    IN  (Root :> [CFRNode(None, None, state) EXCEPT
                    !.utility = UtilityFor(player, u_old),
                    !.sub_nodes = [x \in DOMAIN moves |->
                        [move |-> moves[x], node |-> <<moves[x]>>]]])
        @@ [n \in {<<m>> : m \in DOMAIN u_next} |->
                [CFRNode(n[1], Root, do_move(clone(state), n[1])) EXCEPT
                    !.utility = UtilityFor(player, u_next[n[1]])]]

CallUpdatePi ==
    /\ call.n < MaxCalls
    /\ \E player \in {1, 2} : \E info \in Range(pi[player].info_list) :
          /\ pi' = [pi EXCEPT ![player] = update_pi(@, info)]
          /\ call' = [n |-> call.n + 1, op |-> "update_pi", player |-> player,
                      info |-> info, opponent_p |-> RZero]
    /\ UNCHANGED <<nodes, stack, i, log, exc, race>>

CallUpdateRegret ==
    /\ call.n < MaxCalls
    /\ \E state \in CallStates, u_old \in CallUtilities,
          opponent_p \in CallReach :
       \E S \in SUBSET Range(get_moves(state)) :
       \E u_next \in [S -> CallUtilities] :
          LET player == get_player_next_moved(state)
              tree == CallTree(state, u_old, u_next)
          IN  /\ nodes' = tree
              /\ pi' = [pi EXCEPT ![player] =
                          update_regret(@, tree, Root, opponent_p)]
              /\ call' = [n |-> call.n + 1, op |-> "update_regret",
                          player |-> player,
                          info |-> get_information(state, player),
                          opponent_p |-> opponent_p]
    /\ UNCHANGED <<stack, i, log, exc, race>>

StoreNext ==
    \/ CallUpdatePi
    \/ CallUpdateRegret

StoreSpec == Init /\ [][StoreNext]_vars

----------------------------------------------------------------------------
\* walktree called with any chance sequence: the walk of lines 69-105 from a
\* new root node with both reach probabilities 1 and a sequence that may be
\* empty, hold more outcomes than the game has chance nodes, or hold an
\* outcome that is not a side of the coin.  An exception is caught nowhere
\* in the source: it unwinds every active call and ends the program.  Between
\* walks get_pi is called directly with any keys.

\* Number of walks in WalkSpec.
MaxAnyWalks == 2

AnyOutcomes == {"head", "tail", "edge"}

AnySequences ==
    {<<>>} \cup {<<a>> : a \in AnyOutcomes}
           \cup {<<a, b>> : a \in AnyOutcomes, b \in AnyOutcomes}

AnyInfos == {"head", "tail", "nothing", "edge"}

AnyActions == {"sell", "play", "head", "tail", "jump"}

\* root_node = CFRNode(state=CoinToss()); root_node.walktree(1, 1, sequence)
WalkAny ==
    /\ ~Active
    /\ exc = None
    /\ i < MaxAnyWalks
    /\ \E sequence \in AnySequences :
          /\ nodes' = (Root :> CFRNode(None, None, CoinToss))
          /\ stack' = <<Frame(Root, ROne, ROne, sequence)>>
          /\ log' = <<Event("create", Root), Event("walktree", Root)>>
    /\ i' = i + 1
    /\ call' = NoCall
    /\ UNCHANGED <<pi, exc, race>>

\* walktree, player == 0, line 79: sequence[0] of the empty list
ChanceIndexError ==
    /\ Active
    /\ Top.pc = "start"
    /\ TopPlayer = 0
    /\ Top.sequence = <<>>
    /\ exc' = "IndexError"
    /\ stack' = <<>>
    /\ UNCHANGED <<pi, nodes, i, log, call, race>>

\* mutant of PlayerBeginKeyError: the node of an information set that is not
\* registered is left with utility 0 for both players and the walk goes on
PlayerBeginSkips ==
    /\ Active
    /\ Top.pc = "start"
    /\ TopPlayer \in {1, 2}
    /\ TopInfo \notin DOMAIN pi[TopPlayer].regret
    /\ nodes' = [nodes EXCEPT ![Top.self].utility = <<RZero, RZero>>]
    /\ stack' = Pop
    /\ log' = Append(log, Event("utility", Top.self))
    /\ UNCHANGED <<pi, i, call, exc, race>>

\* walktree, player is 1 or 2, line 87: update_pi starts with
\* self.regret[info], a KeyError for an information set that is not registered
PlayerBeginKeyError ==
    /\ Active
    /\ Top.pc = "start"
    /\ TopPlayer \in {1, 2}
    /\ TopInfo \notin DOMAIN pi[TopPlayer].regret
    /\ exc' = "KeyError"
    /\ stack' = <<>>
    /\ UNCHANGED <<pi, nodes, i, log, call, race>>

\* pi[player].get_pi(info, action) with any keys
CallGetPi ==
    /\ ~Active
    /\ exc = None
    /\ \E player \in {1, 2}, info \in AnyInfos, action \in AnyActions :
          call' = [n |-> 0, op |-> "get_pi", player |-> player, info |-> info,
                   action |-> action,
                   result |-> get_pi(pi[player], info, action)]
    /\ UNCHANGED <<pi, nodes, stack, i, log, exc, race>>

WalkNext ==
    \/ WalkAny
    \/ Terminal
    \/ ChanceExpand
    \/ ChanceIndexError
    \/ ChanceCollect
    \/ PlayerBegin
    \/ PlayerBeginKeyError
    \/ PlayerExpand
    \/ PlayerCollect
    \/ PlayerFinish
    \/ CallGetPi

WalkSpec == Init /\ [][WalkNext]_vars

----------------------------------------------------------------------------
\* StrategyState constructed with any lists: pi[player] =
\* StrategyState(info_list, action_list) with lists that may be empty.

CtorInfoLists ==
    {<<>>, <<"head">>, <<"tail">>, <<"head", "tail">>, <<"nothing">>}

CtorActionLists ==
    {<<>>, <<"sell">>, <<"play">>, <<"sell", "play">>, <<"head", "tail">>}

CallStrategyState ==
    /\ \E player \in {1, 2}, info_list \in CtorInfoLists,
          action_list \in CtorActionLists :
          /\ pi' = [pi EXCEPT ![player] = StrategyState(info_list, action_list)]
          /\ call' = [n |-> 0, op |-> "StrategyState", player |-> player]
    /\ UNCHANGED <<nodes, stack, i, log, exc, race>>

CtorSpec == Init /\ [][CallStrategyState]_vars

----------------------------------------------------------------------------
\* CoinToss used directly: a new game state, do_move with any move and
\* get_result from any player's view, in any order.  call.state is the object
\* the calls are made on.

AnyMoves == {"head", "tail", "sell", "play", "edge"}

AnyViews == {0, 1, 2}

CallCoinToss ==
    /\ call' = [n |-> 0, op |-> "CoinToss", state |-> CoinToss]
    /\ UNCHANGED <<pi, nodes, stack, i, log, exc, race>>

CallDoMove ==
    /\ call.op \in {"CoinToss", "do_move", "get_result"}
    /\ \E move \in AnyMoves :
          call' = [n |-> 0, op |-> "do_move", state |-> do_move(call.state, move)]
    /\ UNCHANGED <<pi, nodes, stack, i, log, exc, race>>

CallGetResult ==
    /\ call.op \in {"CoinToss", "do_move", "get_result"}
    /\ \E playerjm \in AnyViews :
          call' = [n |-> 0, op |-> "get_result", state |-> call.state,
                   playerjm |-> playerjm,
                   result |-> get_result(call.state, playerjm)]
    /\ UNCHANGED <<pi, nodes, stack, i, log, exc, race>>

GameNext ==
    \/ CallCoinToss
    \/ CallDoMove
    \/ CallGetResult

GameSpec == Init /\ [][GameNext]_vars

----------------------------------------------------------------------------
\* Two callers on one store.  The source runs one walk at a time; here two
\* callers run update_regret, or update_pi, on player 2's store and its one
\* information set, each statement by statement and interleaved in any way.
\* A caller's locals (t, regret, the sum about to be stored) are its own; the
\* store is shared.

Callers == {1, 2}

RaceInfo == "nothing"

\* the node at which player 2 moves
RaceState == do_move(do_move(CoinToss, "head"), "play")

\* the node's utility for player 2 and the other player's reach
RaceBaseline == RZero
RaceReach == Rat(1, 2)

\* the utilities of the two children for player 2
RaceUtilities == [Range(get_moves(RaceState)) -> {RInt(-1), ROne}]

Other(th) == 3 - th
Running(th) == race.callers[th].pc \notin {"idle", "done"}
Started == Cardinality({th \in Callers : race.callers[th].pc # "idle"})
MoveAt(k) == pi[2].action_list[k]

\* update_regret lines 37-40: up to t = self.info_turn[info]
RaceUpdateRegret(th) ==
    /\ race.callers[th].pc = "idle"
    /\ race.callers[Other(th)].op \in {None, "update_regret"}
    /\ \E u_next \in RaceUtilities :
          race' = [race EXCEPT
              !.callers[th] = [Idle EXCEPT !.op = "update_regret",
                  !.pc = "read", !.k = 1,
                  !.t = pi[2].info_turn[RaceInfo],
                  !.u_next = u_next, !.order = Started + 1],
              !.overlapped = @ \/ Running(Other(th))]
    /\ UNCHANGED <<pi, nodes, stack, i, log, call, exc>>

\* update_regret line 42: regret = self.regret[info][move]
RaceRegretRead(th) ==
    /\ race.callers[th].pc = "read"
    /\ race' = [race EXCEPT !.callers[th].pc = "write",
                  !.callers[th].regret =
                      pi[2].regret[RaceInfo][MoveAt(race.callers[th].k)]]
    /\ UNCHANGED <<pi, nodes, stack, i, log, call, exc>>

\* update_regret lines 43-44: the assignment of the new regret
RaceRegretWrite(th) ==
    /\ race.callers[th].pc = "write"
    /\ LET c == race.callers[th]
           move == MoveAt(c.k)
       IN  /\ pi' = [pi EXCEPT ![2].regret[RaceInfo][move] =
                  RDiv(RAdd(RMul(c.regret, RInt(c.t)),
                            RMul(RaceReach,
                                 RSub(c.u_next[move], RaceBaseline))),
                       RInt(c.t + 1))]
           /\ race' = [race EXCEPT !.callers[th].k = c.k + 1,
                  !.callers[th].pc =
                      IF c.k = Len(pi[2].action_list) THEN "turn" ELSE "read"]
    /\ UNCHANGED <<nodes, stack, i, log, call, exc>>

\* mutant of RaceTurnWrite: the visit count is read again when it is stored
RaceTurnWriteRereads(th) ==
    /\ race.callers[th].pc = "turn"
    /\ pi' = [pi EXCEPT ![2].info_turn[RaceInfo] = @ + 1]
    /\ race' = [race EXCEPT !.callers[th].pc = "done"]
    /\ UNCHANGED <<nodes, stack, i, log, call, exc>>

\* update_regret line 47: self.info_turn[info] = t + 1
RaceTurnWrite(th) ==
    /\ race.callers[th].pc = "turn"
    /\ pi' = [pi EXCEPT ![2].info_turn[RaceInfo] = race.callers[th].t + 1]
    /\ race' = [race EXCEPT !.callers[th].pc = "done"]
    /\ UNCHANGED <<nodes, stack, i, log, call, exc>>

\* update_pi lines 20-32: the assignment of self.pi[info]
RaceUpdatePi(th) ==
    /\ race.callers[th].pc = "idle"
    /\ race.callers[Other(th)].op \in {None, "update_pi"}
    /\ pi' = [pi EXCEPT ![2].pi[RaceInfo] = new_pi(pi[2], RaceInfo)]
    /\ race' = [race EXCEPT
          !.callers[th] = [Idle EXCEPT !.op = "update_pi", !.pc = "sum_read",
                                       !.k = 1, !.order = Started + 1],
          !.overlapped = @ \/ Running(Other(th))]
    /\ UNCHANGED <<nodes, stack, i, log, call, exc>>

\* update_pi line 34, the right-hand side of +=: the sum is computed
RacePiSumRead(th) ==
    /\ race.callers[th].pc = "sum_read"
    /\ LET action == MoveAt(race.callers[th].k)
       IN  race' = [race EXCEPT !.callers[th].pc = "sum_write",
                      !.callers[th].sum =
                          RAdd(pi[2].pi_sum[RaceInfo][action],
                               pi[2].pi[RaceInfo][action])]
    /\ UNCHANGED <<pi, nodes, stack, i, log, call, exc>>

\* update_pi line 34, the store of +=
RacePiSumWrite(th) ==
    /\ race.callers[th].pc = "sum_write"
    /\ LET c == race.callers[th]
       IN  /\ pi' = [pi EXCEPT ![2].pi_sum[RaceInfo][MoveAt(c.k)] = c.sum]
           /\ race' = [race EXCEPT !.callers[th].k = c.k + 1,
                  !.callers[th].pc =
                      IF c.k = Len(pi[2].action_list) THEN "done"
                      ELSE "sum_read"]
    /\ UNCHANGED <<nodes, stack, i, log, call, exc>>

RaceNext ==
    \E th \in Callers :
        \/ RaceUpdateRegret(th)
        \/ RaceRegretRead(th)
        \/ RaceRegretWrite(th)
        \/ RaceTurnWrite(th)
        \/ RaceUpdatePi(th)
        \/ RacePiSumRead(th)
        \/ RacePiSumWrite(th)

RaceSpec == Init /\ [][RaceNext]_vars

----------------------------------------------------------------------------
\* Notions the properties below are stated in

Players == {1, 2}
Infos(player) == Range(pi[player].info_list)
Actions(player) == Range(pi[player].action_list)

\* the entries of a dict over the store's action list, in list order
Entries(player, d) ==
    [x \in DOMAIN pi[player].action_list |-> d[pi[player].action_list[x]]]

RMax0(x) == IF RGt(x, RZero) THEN x ELSE RZero

\* this step is a direct call of update_pi / update_regret (StoreSpec)
CalledUpdatePi == call'.n = call.n + 1 /\ call'.op = "update_pi"
CalledUpdateRegret == call'.n = call.n + 1 /\ call'.op = "update_regret"

----------------------------------------------------------------------------
\* C1: in every reachable state, for every player and every registered
\* information set, pi[info] is a probability distribution over the store's
\* action list: it has exactly the actions of the list as keys, every entry
\* is >= 0 and the entries sum to 1.
C1_PiIsDistribution ==
    \A player \in Players : \A info \in Infos(player) :
        /\ DOMAIN pi[player].pi[info] = Actions(player)
        /\ \A action \in Actions(player) :
              RGe(pi[player].pi[info][action], RZero)
        /\ RSum(Entries(player, pi[player].pi[info])) = ROne

\* a walk is under way and some strategy has been recomputed from positive
\* regret: it is no longer the uniform one
C1_Witness ==
    /\ Active
    /\ \E player \in Players : \E info \in Infos(player) :
          /\ pi[player].info_turn[info] > 0
          /\ \E action \in Actions(player) :
                pi[player].pi[info][action] # Rat(1, Len(pi[player].action_list))

\* C2: update_pi(info) is regret matching.  With total the sum over the
\* actions of max(regret[info][a], 0) taken before the call: if total <= 0
\* the new pi[info][a] is 1/|actions| for every a; otherwise it is
\* max(regret[info][a], 0) / total, which is 0 where regret[info][a] <= 0.
C2_UpdatePiIsRegretMatching ==
    [][CalledUpdatePi =>
        LET player == call'.player
            info == call'.info
            regret == pi[player].regret[info]
            total == RSum(Entries(player, [a \in Actions(player) |->
                                              RMax0(regret[a])]))
        IN  \A a \in Actions(player) :
              /\ RLe(total, RZero) =>
                    pi'[player].pi[info][a] = Rat(1, Cardinality(Actions(player)))
              /\ RGt(total, RZero) =>
                    /\ pi'[player].pi[info][a] = RDiv(RMax0(regret[a]), total)
                    /\ RLe(regret[a], RZero) =>
                          pi'[player].pi[info][a] = RZero
    ]_vars

\* update_pi has just been called on an information set none of whose regrets
\* is positive and one of whose regrets is negative, and pi is uniform
C2_Witness ==
    /\ call.op = "update_pi"
    /\ \A a \in Actions(call.player) :
          /\ RLe(pi[call.player].regret[call.info][a], RZero)
          /\ pi[call.player].pi[call.info][a] =
                Rat(1, Cardinality(Actions(call.player)))
    /\ \E a \in Actions(call.player) :
          pi[call.player].regret[call.info][a] # RZero

\* C3: update_regret at an information set with visit count t replaces, for
\* every action a with an expanded child, regret[info][a] by
\* (regret[info][a] * t + opponent_p * (u(a) - baseline)) / (t + 1), with the
\* regret and the t of before the call, u(a) the child's utility and baseline
\* the node's utility, both for the player to move.
C3_UpdateRegretIsRunningAverage ==
    [][CalledUpdateRegret =>
        LET player == call'.player
            info == call'.info
            t == pi[player].info_turn[info]
            baseline == nodes'[Root].utility[player]
        IN  \A x \in DOMAIN nodes'[Root].sub_nodes :
              LET a == nodes'[Root].sub_nodes[x].move
                  u == nodes'[nodes'[Root].sub_nodes[x].node].utility[player]
              IN  pi'[player].regret[info][a] =
                     RDiv(RAdd(RMul(pi[player].regret[info][a], RInt(t)),
                               RMul(call'.opponent_p, RSub(u, baseline))),
                          RInt(t + 1))
    ]_vars

\* update_regret has just been called for the second time on an information
\* set (t = 1) whose regrets were not zero, with one child expanded
C3_Witness ==
    /\ call.op = "update_regret"
    /\ pi[call.player].info_turn[call.info] = 2
    /\ Len(nodes[Root].sub_nodes) = 1
    /\ \A a \in Actions(call.player) :
          pi[call.player].regret[call.info][a] # RZero

\* C4: every call of update_pi(info) adds the strategy it has just computed
\* to pi_sum[info]: for every action a, pi_sum[info][a] after the call is its
\* value before the call plus the new pi[info][a], in both branches.
C4_UpdatePiAccumulates ==
    [][CalledUpdatePi =>
        \A a \in Actions(call'.player) :
            pi'[call'.player].pi_sum[call'.info][a] =
                RAdd(pi[call'.player].pi_sum[call'.info][a],
                     pi'[call'.player].pi[call'.info][a])
    ]_vars

\* update_pi has just been called on an information set it had been called on
\* before, in the uniform branch: pi_sum is the sum of two strategies
C4_Witness ==
    /\ call.op = "update_pi"
    /\ call.n = 2
    /\ \A a \in Actions(call.player) :
          /\ RLe(pi[call.player].regret[call.info][a], RZero)
          /\ RGt(pi[call.player].pi_sum[call.info][a],
                 pi[call.player].pi[call.info][a])

\* this step is an update_regret on (player, info): called directly, or by
\* the walk at a node of player with that information set
IsUpdateRegret(player, info) ==
    \/ /\ CalledUpdateRegret
       /\ call'.player = player
       /\ call'.info = info
    \/ /\ Len(log') = Len(log) + 2
       /\ log'[Len(log')].op = "update_regret"
       /\ get_player_next_moved(nodes[log'[Len(log')].node].state) = player
       /\ get_information(nodes[log'[Len(log')].node].state, player) = info

\* C5: a step that is an update_regret on an information set increases its
\* info_turn by exactly 1, whatever the children; every other step leaves
\* info_turn as it is.  So info_turn never decreases and counts the
\* update_regret calls on the information set.
C5_InfoTurnCountsUpdateRegret ==
    [][\A player \in Players : \A info \in Infos(player) :
          pi'[player].info_turn[info] =
              pi[player].info_turn[info]
                  + (IF IsUpdateRegret(player, info) THEN 1 ELSE 0)
    ]_vars

\* update_regret has been called twice on an information set, the second
\* time at a node with no child expanded, and its info_turn is 2
C5_Witness ==
    /\ call.op = "update_regret"
    /\ call.n = 2
    /\ nodes[Root].sub_nodes = <<>>
    /\ pi[call.player].info_turn[call.info] = 2

----------------------------------------------------------------------------
\* Notions of the walk

\* the player to move at a node, its information set and its legal moves
NodePlayer(n) == get_player_next_moved(nodes[n].state)
NodeInfo(n) == get_information(nodes[n].state, NodePlayer(n))
NodeMoves(n) == get_moves(nodes[n].state)
Parent(n) == SubSeq(n, 1, Len(n) - 1)

\* the product, over the first k moves of path that player makes, of the
\* probability player's current strategy gives the move
RECURSIVE ReachProduct(_, _, _)
ReachProduct(player, path, k) ==
    IF k = 0 THEN ROne
    ELSE LET n == SubSeq(path, 1, k - 1)
             rest == ReachProduct(player, path, k - 1)
         IN  IF NodePlayer(n) = player
             THEN RMul(rest, pi[player].pi[NodeInfo(n)][path[k]])
             ELSE rest

\* C6: the reach pair with which a node is walked is, for each player, the
\* product of that player's own action probabilities (get_pi at the
\* information set of each of the player's nodes on the path from the root);
\* the other player's moves and the chance move contribute no factor.  At
\* every step down from a player's node this is: own reach times get_pi,
\* the other reach unchanged.
C6_ReachIsOwnProduct ==
    \A j \in DOMAIN stack :
        /\ stack[j].p1 = ReachProduct(1, stack[j].self, Len(stack[j].self))
        /\ stack[j].p2 = ReachProduct(2, stack[j].self, Len(stack[j].self))
        /\ j > 1 /\ NodePlayer(stack[j - 1].self) = 1 =>
              /\ stack[j].p1 = RMul(stack[j - 1].p1,
                    get_pi(pi[1], NodeInfo(stack[j - 1].self), stack[j - 1].move))
              /\ stack[j].p2 = stack[j - 1].p2
        /\ j > 1 /\ NodePlayer(stack[j - 1].self) = 2 =>
              /\ stack[j].p2 = RMul(stack[j - 1].p2,
                    get_pi(pi[2], NodeInfo(stack[j - 1].self), stack[j - 1].move))
              /\ stack[j].p1 = stack[j - 1].p1

\* a leaf below player 2's node is being walked with both reach
\* probabilities strictly between 0 and 1
C6_Witness ==
    /\ Len(stack) = 4
    /\ RGt(Top.p1, RZero) /\ RGt(ROne, Top.p1)
    /\ RGt(Top.p2, RZero) /\ RGt(ROne, Top.p2)

\* this step is the end of walktree at a player's node (lines 101-105)
IsPlayerFinish ==
    /\ Active
    /\ Top.pc = "loop"
    /\ stack' = Pop
    /\ Len(log') = Len(log) + 2
    /\ log'[Len(log')] = Event("update_regret", Top.self)

\* C7: the regrets update_regret leaves at a node of player p are the running
\* average taken with the OTHER player's incoming reach (p2 at a node of
\* player 1, p1 at a node of player 2) and with the node's own utility for p
\* as baseline.
C7_RegretWeightIsOpponentReach ==
    [][IsPlayerFinish =>
        LET p == TopPlayer
            info == TopInfo
            t == pi[p].info_turn[info]
            opp == IF p = 1 THEN Top.p2 ELSE Top.p1
            baseline == nodes'[Top.self].utility[p]
        IN  \A x \in DOMAIN TopMoves :
              LET a == TopMoves[x]
                  u == nodes'[Append(Top.self, a)].utility[p]
              IN  pi'[p].regret[info][a] =
                     RDiv(RAdd(RMul(pi[p].regret[info][a], RInt(t)),
                               RMul(opp, RSub(u, baseline))),
                          RInt(t + 1))
    ]_vars

\* update_regret has just run at player 2's node, reached with p1 # p2, and
\* the children's utilities differ from the baseline
C7_Witness ==
    /\ Len(log) > 0
    /\ log[Len(log)].op = "update_regret"
    /\ NodePlayer(log[Len(log)].node) = 2
    /\ Active
    /\ Top.pi_action # ROne
    /\ Top.pi_action # RZero
    /\ \A x \in DOMAIN NodeMoves(log[Len(log)].node) :
          nodes[Append(log[Len(log)].node,
                       NodeMoves(log[Len(log)].node)[x])].utility[2]
              # nodes[log[Len(log)].node].utility[2]

\* C8: every node whose utility is set has the reference value: at a
\* terminal node utility[k] = get_result(k); at a node of player 1 or 2,
\* utility[k] is the sum over the legal actions of get_pi(info, action) times
\* the child's utility[k], for k = 1 and k = 2 alike.
C8_UtilityIsReferenceValue ==
    \A n \in DOMAIN nodes :
        nodes[n].utility # NoUtility =>
            /\ NodePlayer(n) = NoPlayer =>
                  \A k \in {1, 2} :
                      nodes[n].utility[k] = get_result(nodes[n].state, k)
            /\ NodePlayer(n) \in {1, 2} =>
                  \A k \in {1, 2} :
                      nodes[n].utility[k] =
                          RSum([x \in DOMAIN NodeMoves(n) |->
                              RMul(get_pi(pi[NodePlayer(n)], NodeInfo(n),
                                          NodeMoves(n)[x]),
                                   nodes[Append(n, NodeMoves(n)[x])].utility[k])])

\* a walk has ended in which a player mixed neither uniformly nor purely, so
\* that the value of that player's node is a weighted sum with unequal,
\* positive weights
C8_Witness ==
    /\ ~Active
    /\ i > 0
    /\ \E n \in DOMAIN nodes :
          /\ NodePlayer(n) \in {1, 2}
          /\ nodes[n].utility # NoUtility
          /\ \A x \in DOMAIN NodeMoves(n) :
                get_pi(pi[NodePlayer(n)], NodeInfo(n), NodeMoves(n)[x])
                    \notin {RZero, Rat(1, 2), ROne}

\* C9: when a walk has ended, every node of its tree has a utility and
\* utility[1] + utility[2] = 0; the same holds during the walk of every node
\* whose utility is set.
C9_ZeroSum ==
    /\ \A n \in DOMAIN nodes :
          nodes[n].utility # NoUtility =>
              RAdd(nodes[n].utility[1], nodes[n].utility[2]) = RZero
    /\ ~Active => \A n \in DOMAIN nodes : nodes[n].utility # NoUtility

\* a walk has ended with a root utility that is not zero
C9_Witness ==
    /\ ~Active
    /\ i > 1
    /\ Cardinality(DOMAIN nodes) = 6
    /\ nodes[Root].utility[1] # RZero

\* the positions of the log before x that hold the event e
Before(x, e) == {y \in 1..(x - 1) : log[y] = e}

\* C10: within the visit of a player's node, update_pi is called before any
\* child of the node is created or walked, and update_regret is called only
\* after every legal action's child has been created, walked and given its
\* utility.
C10_UpdateOrder ==
    \A x \in DOMAIN log :
        /\ log[x].op \in {"create", "walktree"}
           /\ log[x].node # Root
           /\ NodePlayer(Parent(log[x].node)) \in {1, 2}
           => Before(x, Event("update_pi", Parent(log[x].node))) # {}
        /\ log[x].op = "update_regret" =>
              /\ Before(x, Event("update_pi", log[x].node)) # {}
              /\ \A m \in Range(NodeMoves(log[x].node)) :
                    /\ Before(x, Event("create", Append(log[x].node, m))) # {}
                    /\ Before(x, Event("walktree", Append(log[x].node, m))) # {}
                    /\ Before(x, Event("utility", Append(log[x].node, m))) # {}
                    /\ nodes[Append(log[x].node, m)].utility # NoUtility

\* update_regret has run at player 1's node, whose child after "play" is
\* itself a player's node with two children
C10_Witness ==
    \E x \in DOMAIN log :
        /\ log[x].op = "update_regret"
        /\ Len(log[x].node) = 1
        /\ \E y \in DOMAIN log :
              /\ y < x
              /\ log[y].op = "update_regret"
              /\ Len(log[y].node) = 2

\* the nodes created below node n
Children(n) == {m \in DOMAIN nodes : Len(m) = Len(n) + 1 /\ Parent(m) = n}

\* C11: a chance node takes the first element of the sequence as its only
\* move: one child is created, it is walked with the rest of the sequence and
\* with both reach probabilities as they came in, and the node's utility is
\* the child's utility.  A player's node passes the sequence to its children
\* as it came in and walks every legal move in list order, whatever the
\* sequence holds.
C11_ChanceConsumesFirstOutcome ==
    /\ \A j \in 2..Len(stack) :
          LET caller == stack[j - 1]
              callee == stack[j]
          IN  /\ NodePlayer(caller.self) = 0 =>
                    /\ caller.sequence # <<>>
                    /\ callee.self = Append(caller.self, caller.sequence[1])
                    /\ nodes[callee.self].move = caller.sequence[1]
                    /\ Children(caller.self) = {callee.self}
                    /\ callee.sequence = Tail(caller.sequence)
                    /\ callee.p1 = caller.p1
                    /\ callee.p2 = caller.p2
              /\ NodePlayer(caller.self) \in {1, 2} =>
                    /\ callee.sequence = caller.sequence
                    /\ callee.self =
                          Append(caller.self, NodeMoves(caller.self)[caller.k])
    /\ \A n \in DOMAIN nodes :
          nodes[n].utility # NoUtility =>
              /\ NodePlayer(n) = 0 =>
                    /\ Len(nodes[n].sub_nodes) = 1
                    /\ Children(n) = {nodes[n].sub_nodes[1].node}
                    /\ nodes[n].utility =
                          nodes[nodes[n].sub_nodes[1].node].utility
              /\ NodePlayer(n) \in {1, 2} =>
                    [x \in DOMAIN nodes[n].sub_nodes |->
                        nodes[n].sub_nodes[x].move] = NodeMoves(n)

\* the walk of the sequence tail, head has gone through the chance node and
\* player 1's node and is at a leaf below player 2's node, with head left in
\* the sequence
C11_Witness ==
    /\ Len(stack) = 4
    /\ stack[1].sequence = <<"tail", "head">>
    /\ Top.self = <<"tail", "play", "tail">>
    /\ Top.sequence = <<"head">>
    /\ nodes[<<"tail", "sell">>].utility # NoUtility

\* the least and the greatest value get_result returns in the coin game
UtilityLo == RInt(-1)
UtilityHi == ROne

\* C12: the utilities of the terminal nodes lie in [lo, hi] = [-1, 1], and
\* after any number of walks (and at every point within a walk) every
\* regret[info][a] of both stores lies in [lo - hi, hi - lo] = [-2, 2].
C12_RegretBounded ==
    /\ \A n \in DOMAIN nodes :
          nodes[n].utility # NoUtility /\ NodePlayer(n) = NoPlayer =>
              \A k \in Players :
                  /\ RGe(nodes[n].utility[k], UtilityLo)
                  /\ RLe(nodes[n].utility[k], UtilityHi)
    /\ \A player \in Players : \A info \in Infos(player) :
          \A a \in Actions(player) :
              /\ RGe(pi[player].regret[info][a], RSub(UtilityLo, UtilityHi))
              /\ RLe(pi[player].regret[info][a], RSub(UtilityHi, UtilityLo))

\* after several walks a regret has left [lo, hi] and is still in
\* [lo - hi, hi - lo]
C12_Witness ==
    /\ ~Active
    /\ i > 2
    /\ \E player \in Players : \E info \in Infos(player) :
          \E a \in Actions(player) :
              \/ RGt(pi[player].regret[info][a], UtilityHi)
              \/ RGt(UtilityLo, pi[player].regret[info][a])

\* the first walk from the stores of line 53 has ended
FirstWalkEnded == i = 1 /\ ~Active

\* the chance outcome of the current walk
Dealt == nodes[Root].sub_nodes[1].move

\* C13 as stated: after exactly one walk from the new stores, with either
\* chance outcome, pi_sum of player 2's information set for "head" is 0.5 and
\* the visit count of every information set of both players is 1.
C13_EveryInfoSetVisitedOnce ==
    FirstWalkEnded =>
        /\ pi[2].pi_sum["nothing"]["head"] = Rat(1, 2)
        /\ \A player \in Players : \A info \in Infos(player) :
              pi[player].info_turn[info] = 1

\* C13: after exactly one walk from the new stores, with either chance
\* outcome, pi_sum of player 2's information set for "head" is 0.5, the visit
\* count of player 2's information set and of player 1's information set for
\* the dealt side of the coin is 1, and the visit count of player 1's
\* information set for the other side is 0.
C13_FirstWalk ==
    FirstWalkEnded =>
        /\ pi[2].pi_sum["nothing"]["head"] = Rat(1, 2)
        /\ pi[2].info_turn["nothing"] = 1
        /\ \A info \in Infos(1) :
              pi[1].info_turn[info] = IF info = Dealt THEN 1 ELSE 0

\* the first walk has ended and its chance outcome was tail
C13_Witness ==
    /\ FirstWalkEnded
    /\ Dealt = "tail"
    /\ nodes[Root].utility # NoUtility

\* C15 as stated: no store with an empty action list or an empty list of
\* information sets ever exists (its construction fails).
C15_NoEmptyStore ==
    \A player \in Players :
        /\ pi[player].action_list # <<>>
        /\ pi[player].info_list # <<>>

\* the registered keys of a store's pi
Registered(player, info, action) ==
    /\ info \in Range(pi[player].info_list)
    /\ action \in Range(pi[player].action_list)

\* C16: get_pi(info, action) changes nothing in the store; it returns
\* pi[info][action] when info and action are registered and raises KeyError,
\* returning no value, when either is not.  A walk that comes to a player's
\* node whose information set is not registered ends there with KeyError:
\* every active call is left, no store is changed by that step, and no
\* further step of the program follows an exception.
C16_UnregisteredLookupFails ==
    /\ [][call' # call /\ call'.op = "get_pi" =>
            /\ pi' = pi
            /\ Registered(call'.player, call'.info, call'.action) =>
                  call'.result = pi[call'.player].pi[call'.info][call'.action]
            /\ ~Registered(call'.player, call'.info, call'.action) =>
                  call'.result = Raise("KeyError")
       ]_vars
    /\ [][/\ Active
          /\ Top.pc = "start"
          /\ TopPlayer \in Players
          /\ TopInfo \notin Infos(TopPlayer)
          => exc' = "KeyError" /\ stack' = <<>> /\ pi' = pi
       ]_vars
    /\ [][exc = None]_vars

\* a walk whose chance outcome is not a side of the coin has ended with
\* KeyError at player 1's node, which has no utility and no child
C16_Witness ==
    /\ exc = "KeyError"
    /\ <<"edge">> \in DOMAIN nodes
    /\ nodes[<<"edge">>].utility = NoUtility
    /\ Children(<<"edge">>) = {}
    /\ nodes[Root].utility = NoUtility

\* the payoff rules of get_result: player 1 sold a coin that shows head or
\* tail, or player 2 has guessed after player 1 chose to play
RecognisedPayoff(state) ==
    \/ /\ state.player_just_moved = 1
       /\ state.player1_choice = "sell"
       /\ state.coin_toss \in {"head", "tail"}
    \/ /\ state.player_just_moved = 2
       /\ state.player1_choice = "play"

\* C17 as stated: for every combination of player_just_moved, coin_toss,
\* player1_choice and player2_choice that no payoff rule recognises,
\* get_result raises instead of returning a value or nothing.
C17_GetResultNeverDefaults ==
    call.op = "get_result" /\ ~RecognisedPayoff(call.state) =>
        call.result = Raise("Exception")

\* a walktree call on node n is active
CallActive(n) == \E j \in DOMAIN stack : stack[j].self = n

\* the phase of a created node: 1 unexpanded (utility unset, walktree not
\* active), 2 expanding (walktree active, utility unset), 3 finalized (utility
\* set)
Phase(n) ==
    IF nodes[n].utility # NoUtility THEN 3
    ELSE IF CallActive(n) THEN 2
    ELSE 1

\* this step stays within one walk: it does not replace the tree by a new root
SameWalk == i' = i

\* C18: the phases of a node follow one another in the order unexpanded,
\* expanding, finalized.  In the history of the walk each node is created
\* once, walked at most once and after its creation, and given its utility at
\* most once, after its walk began and after every child created below it
\* got its own; a utility is set exactly when the history holds its
\* assignment.  No step of a walk removes a node, lowers a node's phase or
\* changes a utility that is set.
C18_NodePhases ==
    /\ [](/\ \A x \in DOMAIN log :
                /\ Before(x, log[x]) = {}
                /\ log[x].node \in DOMAIN nodes
                /\ log[x].op = "walktree" =>
                      Before(x, Event("create", log[x].node)) # {}
                /\ log[x].op = "utility" =>
                      /\ Before(x, Event("walktree", log[x].node)) # {}
                      /\ \A c \in Children(log[x].node) :
                            Before(x, Event("utility", c)) # {}
          /\ \A n \in DOMAIN nodes :
                /\ Event("create", n) \in Range(log)
                /\ CallActive(n) => Event("walktree", n) \in Range(log)
                /\ nodes[n].utility # NoUtility <=>
                      Event("utility", n) \in Range(log)
                /\ Phase(n) = 3 => \A c \in Children(n) : Phase(c) = 3)
    /\ [][SameWalk =>
            \A n \in DOMAIN nodes :
                /\ n \in DOMAIN nodes'
                /\ Phase(n)' >= Phase(n)
                /\ nodes[n].utility # NoUtility =>
                      nodes'[n].utility = nodes[n].utility
       ]_vars

\* player 2's node is being expanded below player 1's node, also being
\* expanded: its first leaf and player 1's "sell" leaf are finalized, its
\* second leaf is not created yet, and the root has no utility
C18_Witness ==
    /\ Len(stack) = 3
    /\ Top.self = <<"head", "play">>
    /\ Top.pc = "loop"
    /\ <<"head", "play", "head">> \in DOMAIN nodes
    /\ Phase(<<"head", "play">>) = 2
    /\ Phase(<<"head">>) = 2
    /\ Phase(Root) = 2
    /\ Phase(<<"head", "sell">>) = 3
    /\ Phase(<<"head", "play", "head">>) = 3
    /\ <<"head", "play", "tail">> \notin DOMAIN nodes

\* C19: a node's game state is never changed by the walk: the root holds the
\* new CoinToss and every other node holds its parent's state with the node's
\* own move applied by do_move and nothing else, whatever was walked before
\* it; and no step of a walk changes the state a node holds.
C19_MovesOnClones ==
    /\ [](\A n \in DOMAIN nodes :
            IF n = Root
            THEN nodes[n].state = CoinToss
            ELSE /\ Parent(n) \in DOMAIN nodes
                 /\ nodes[n].move = n[Len(n)]
                 /\ nodes[n].state =
                       do_move(nodes[Parent(n)].state, nodes[n].move))
    /\ [][SameWalk =>
            \A n \in DOMAIN nodes :
                n \in DOMAIN nodes' /\ nodes'[n].state = nodes[n].state
       ]_vars

\* player 1's second child is being walked after the subtree of the first
\* has been walked: its state holds "play" and no trace of "sell"
C19_Witness ==
    /\ Len(stack) = 3
    /\ Top.self = <<"tail", "play">>
    /\ nodes[<<"tail", "sell">>].utility # NoUtility
    /\ nodes[<<"tail", "play">>].state.player1_choice = "play"
    /\ nodes[<<"tail">>].state.player1_choice = None
    /\ nodes[<<"tail">>].state.player_just_moved = 0

\* the game's maximum ply count: chance, player 1, player 2
MaxPly == 3

\* the tree of the coin game below the chance outcome c
TreeBelow(c) ==
    {Root, <<c>>, <<c, "sell">>, <<c, "play">>,
     <<c, "play", "head">>, <<c, "play", "tail">>}

RECURSIVE SumOver(_, _)
SumOver(f, S) ==
    IF S = {} THEN 0
    ELSE LET x == CHOOSE y \in S : TRUE
         IN  f[x] + SumOver(f, S \ {x})

\* what the current walk has done so far: the events of its history plus the
\* children entered in sub_nodes
Work ==
    Len(log) + SumOver([n \in DOMAIN nodes |-> Len(nodes[n].sub_nodes)],
                       DOMAIN nodes)

\* the work of a whole walk: per node a creation, a walktree call and a
\* utility, per player's node an update_pi and an update_regret, and per node
\* below the root an entry in its parent's sub_nodes
WalkWork == 3 * 6 + 2 * 2 + 5

\* the innermost active call is at a position from which walktree goes on
\* without an exception
CanStep ==
    \/ Top.pc = "start" /\ TopPlayer = NoPlayer
    \/ Top.pc = "start" /\ TopPlayer = 0 /\ Top.sequence # <<>>
    \/ Top.pc = "start" /\ TopPlayer \in Players
                        /\ TopInfo \in Infos(TopPlayer)
    \/ Top.pc \in {"chance_ret", "loop", "ret"}

\* C21: a walk from a new CoinToss root with a one-element sequence from
\* {head, tail} ends: while it is active it can always go on, every step adds
\* to the work done, and the work of a walk is bounded.  The active walktree
\* calls are nested along one path of the tree, never deeper than the game's
\* 3 plies below the root.  When the walk has ended, all its work is done and
\* the tree holds exactly the nodes below the chance outcome (root, coin node,
\* sell leaf, play node, two guess leaves), each with its utility, every
\* legal action of each player's node with a finalized child.
C21_WalkTerminates ==
    /\ [](/\ Work <= WalkWork
          /\ Active => CanStep
          /\ Len(stack) <= MaxPly + 1
          /\ \A j \in DOMAIN stack :
                /\ Len(stack[j].self) = j - 1
                /\ j > 1 => Parent(stack[j].self) = stack[j - 1].self
          /\ ~Active /\ i > 0 =>
                /\ Work = WalkWork
                /\ DOMAIN nodes = TreeBelow(Dealt)
                /\ \A n \in DOMAIN nodes :
                      /\ nodes[n].utility # NoUtility
                      /\ NodePlayer(n) \in Players =>
                            \A m \in Range(NodeMoves(n)) :
                                /\ Append(n, m) \in DOMAIN nodes
                                /\ nodes[Append(n, m)].utility # NoUtility
                      /\ NodePlayer(n) = NoPlayer <=> NodeMoves(n) = <<>>)
    /\ [][SameWalk => Work' > Work]_vars

\* a walk with chance outcome head has ended after reaching depth 3: the
\* second guess leaf has its utility and so has the root
C21_Witness ==
    /\ ~Active
    /\ i > 0
    /\ Dealt = "head"
    /\ <<"head", "play", "tail">> \in DOMAIN nodes
    /\ nodes[<<"head", "play", "tail">>].utility # NoUtility
    /\ nodes[Root].utility # NoUtility
    /\ Work = WalkWork

\* both callers have returned from op
BothDone(op) ==
    \A th \in Callers :
        race.callers[th].pc = "done" /\ race.callers[th].op = op

\* the caller that called first, second
CallerAt(order) == CHOOSE th \in Callers : race.callers[th].order = order

\* player 2's store after update_regret of caller a and then of caller b, one
\* after the other, on the store of line 53
OneAfterAnother(a, b) ==
    LET tree(th) == CallTree(RaceState, RaceBaseline, race.callers[th].u_next)
        s0 == StrategyState(<<"nothing">>, <<"head", "tail">>)
        s1 == update_regret(s0, tree(a), Root, RaceReach)
    IN  update_regret(s1, tree(b), Root, RaceReach)

\* the term caller th adds to the running average of move
TermOf(th, move) ==
    RMul(RaceReach, RSub(race.callers[th].u_next[move], RaceBaseline))

\* C22: the updates of update_regret and update_pi are read-then-write.  Two
\* update_regret calls on one information set that run one after the other
\* leave info_turn increased by 2 and the regrets of the running average over
\* both; when the second call begins before the first has returned, info_turn
\* is increased by 1 only and every regret holds the term of one caller, the
\* other term is lost.  Two update_pi calls one after the other add pi to
\* pi_sum twice; interleaved they add it once or twice.
C22_LostUpdate ==
    /\ BothDone("update_regret") =>
          IF race.overlapped
          THEN /\ pi[2].info_turn[RaceInfo] = 1
               /\ \A move \in Actions(2) : \E th \in Callers :
                     pi[2].regret[RaceInfo][move] = TermOf(th, move)
          ELSE /\ pi[2].info_turn[RaceInfo] = 2
               /\ pi[2].regret =
                     OneAfterAnother(CallerAt(1), CallerAt(2)).regret
    /\ BothDone("update_pi") =>
          \A action \in Actions(2) :
              /\ pi[2].pi_sum[RaceInfo][action] \in {Rat(1, 2), ROne}
              /\ ~race.overlapped => pi[2].pi_sum[RaceInfo][action] = ROne

\* two interleaved update_regret calls have returned: info_turn is 1 and the
\* regrets are those of neither order of the two calls
C22_Witness ==
    /\ BothDone("update_regret")
    /\ race.overlapped
    /\ pi[2].info_turn[RaceInfo] = 1
    /\ pi[2].regret # OneAfterAnother(1, 2).regret
    /\ pi[2].regret # OneAfterAnother(2, 1).regret

\* a node at player's information set info is between its update_pi and its
\* update_regret
Expanding(player, info) ==
    \E j \in DOMAIN stack :
        /\ stack[j].pc \in {"loop", "ret"}
        /\ NodePlayer(stack[j].self) = player
        /\ NodeInfo(stack[j].self) = info

PiSumTotal(player, info) == RSum(Entries(player, pi[player].pi_sum[info]))

\* C23: for every player and information set the sum over the actions of
\* pi_sum[info][a] equals info_turn[info], after any number of completed
\* walks and at every point of a walk, except while a node at that
\* information set is between its update_pi and its update_regret, where the
\* sum equals info_turn[info] + 1.
C23_PiSumCountsVisits ==
    \A player \in Players : \A info \in Infos(player) :
        PiSumTotal(player, info) =
            IF Expanding(player, info)
            THEN RInt(pi[player].info_turn[info] + 1)
            ELSE RInt(pi[player].info_turn[info])

\* player 2's node is being expanded at its third visit or later, below
\* player 1's node being expanded at its second visit or later, with pi_sum
\* of "nothing" not the same for both actions
C23_Witness ==
    /\ Len(stack) = 3
    /\ Expanding(2, "nothing")
    /\ Expanding(1, Top.self[1])
    /\ pi[2].info_turn["nothing"] >= 2
    /\ pi[1].info_turn[Top.self[1]] >= 1
    /\ pi[2].pi_sum["nothing"]["head"] # pi[2].pi_sum["nothing"]["tail"]
    /\ PiSumTotal(2, "nothing") = RInt(pi[2].info_turn["nothing"] + 1)

\* the four entries a store holds for one information set
EntriesOf(store, info) ==
    <<store.pi[info], store.regret[info], store.pi_sum[info],
      store.info_turn[info]>>

\* the chance outcome of the walk under way
Coin == stack[1].sequence[1]

\* C24: a step of a walk with chance outcome c that changes a store is the
\* update_pi or the update_regret of a player's node, and it changes only the
\* entries of that player's store for the node's information set, which is c
\* for player 1 and "nothing" for player 2: the other player's store, the
\* lists of the store and the entries of every other information set (player
\* 1's other side of the coin) stay as they are.  update_pi leaves regret and
\* info_turn as they are, update_regret leaves pi and pi_sum as they are.
C24_WalkTouchesOwnInfoOnly ==
    [][pi' # pi =>
        /\ Active
        /\ TopPlayer \in Players
        /\ TopInfo = IF TopPlayer = 1 THEN Coin ELSE "nothing"
        /\ \A player \in Players :
              /\ pi'[player].info_list = pi[player].info_list
              /\ pi'[player].action_list = pi[player].action_list
              /\ \A info \in Infos(player) :
                    <<player, info>> # <<TopPlayer, TopInfo>> =>
                        EntriesOf(pi'[player], info) = EntriesOf(pi[player], info)
        /\ Top.pc = "start" =>
              /\ pi'[TopPlayer].regret = pi[TopPlayer].regret
              /\ pi'[TopPlayer].info_turn = pi[TopPlayer].info_turn
        /\ Top.pc = "loop" =>
              /\ pi'[TopPlayer].pi = pi[TopPlayer].pi
              /\ pi'[TopPlayer].pi_sum = pi[TopPlayer].pi_sum
        /\ Top.pc \in {"start", "loop"}
    ]_vars

\* a walk with chance outcome tail has ended and both of player 1's
\* information sets have been visited before: the entries for head, which
\* differ from those for tail, are those of the last walk with head
C24_Witness ==
    /\ ~Active
    /\ i > 2
    /\ Dealt = "tail"
    /\ pi[1].info_turn["head"] >= 1
    /\ pi[1].info_turn["tail"] >= 2
    /\ pi[1].regret["head"]["sell"] # pi[1].regret["tail"]["sell"]
    /\ pi[1].pi["head"] # pi[1].pi["tail"]

\* this step is at player 2's node, reached with probability 0 by player 1
ZeroReachStep ==
    /\ Active
    /\ TopPlayer = 2
    /\ Top.p1 = RZero

\* C25: a move of probability 0 is walked like any other.  When player 1's
\* strategy at the dealt coin's information set gives "play" probability 0,
\* the walk still creates player 2's node and both guess leaves and gives
\* them their utilities, and calls update_pi and update_regret at player 2's
\* node: the update_pi adds the new pi to pi_sum["nothing"], whose sum grows
\* by 1, and the update_regret increases info_turn["nothing"], t before the
\* call, by 1 and replaces each regret["nothing"][a] by regret * t / (t + 1).
C25_NoPruningOnZeroReach ==
    /\ [](~Active /\ i > 0 /\ get_pi(pi[1], Dealt, "play") = RZero =>
            LET play == <<Dealt, "play">>
            IN  /\ \A n \in {play, Append(play, "head"), Append(play, "tail")} :
                      n \in DOMAIN nodes /\ nodes[n].utility # NoUtility
                /\ Event("update_pi", play) \in Range(log)
                /\ Event("update_regret", play) \in Range(log))
    /\ [][ZeroReachStep /\ Top.pc = "start" =>
            /\ pi'[2].pi["nothing"] = new_pi(pi[2], "nothing")
            /\ \A a \in Actions(2) :
                  pi'[2].pi_sum["nothing"][a] =
                      RAdd(pi[2].pi_sum["nothing"][a], pi'[2].pi["nothing"][a])
            /\ RSum(Entries(2, pi'[2].pi_sum["nothing"])) =
                  RAdd(RSum(Entries(2, pi[2].pi_sum["nothing"])), ROne)
       ]_vars
    /\ [][ZeroReachStep /\ IsPlayerFinish =>
            LET t == pi[2].info_turn["nothing"]
            IN  /\ Len(nodes[Top.self].sub_nodes) = 2
                /\ pi'[2].info_turn["nothing"] = t + 1
                /\ \A a \in Actions(2) :
                      pi'[2].regret["nothing"][a] =
                          RDiv(RMul(pi[2].regret["nothing"][a], RInt(t)),
                               RInt(t + 1))
       ]_vars

\* player 1's node has just got back from "play", which its strategy gives
\* probability 0: player 2's node below it has its utility, and a regret of
\* "nothing" that was scaled by the visit is not 0
C25_Witness ==
    /\ Len(stack) = 2
    /\ Top.pc = "ret"
    /\ Top.move = "play"
    /\ Top.pi_action = RZero
    /\ nodes[Append(Top.self, "play")].utility # NoUtility
    /\ Len(nodes[Append(Top.self, "play")].sub_nodes) = 2
    /\ pi[2].info_turn["nothing"] >= 2
    /\ \E a \in Actions(2) : pi[2].regret["nothing"][a] # RZero

\* the sum over the store's actions of weight[a] * value[a]
Weighted(player, weight, value) ==
    RSum(Entries(player, [a \in Actions(player) |-> RMul(weight[a], value[a])]))

\* C26: at every update_regret call a walk makes, with strategy the pi[info]
\* the node's children were walked with, baseline the node's utility and u(a)
\* the utility of the child of a, both for the player to move: the sum over
\* the actions of strategy[a] * (u(a) - baseline) is 0, and the sum of
\* strategy[a] * regret[info][a] after the call is t / (t + 1) times that sum
\* before the call, t being info_turn[info] before the call.
C26_WeightedRegretCancels ==
    [][IsPlayerFinish =>
        LET player == TopPlayer
            info == TopInfo
            t == pi[player].info_turn[info]
            strategy == pi[player].pi[info]
            baseline == nodes'[Top.self].utility[player]
            instant == [a \in Actions(player) |->
                RSub(nodes[Append(Top.self, a)].utility[player], baseline)]
        IN  /\ Actions(player) = Range(NodeMoves(Top.self))
            /\ Weighted(player, strategy, instant) = RZero
            /\ Weighted(player, strategy, pi'[player].regret[info]) =
                  RDiv(RMul(RInt(t),
                            Weighted(player, strategy, pi[player].regret[info])),
                       RInt(t + 1))
    ]_vars

\* update_regret has just run at player 2's node, visited before, with a
\* strategy that is not uniform, children whose utilities differ and a
\* strategy-weighted sum of regrets that is not 0
C26_Witness ==
    /\ Len(stack) = 2
    /\ Top.pc = "ret"
    /\ Top.move = "play"
    /\ log[Len(log)] = Event("update_regret", Append(Top.self, "play"))
    /\ pi[2].info_turn["nothing"] >= 2
    /\ pi[2].pi["nothing"]["head"] # pi[2].pi["nothing"]["tail"]
    /\ nodes[Append(Top.self, "play")].utility # NoUtility
    /\ nodes[Top.self \o <<"play", "head">>].utility #
          nodes[Top.self \o <<"play", "tail">>].utility
    /\ Weighted(2, pi[2].pi["nothing"], pi[2].regret["nothing"]) # RZero
    /\ RGt(Top.p1, RZero)

====
